---- MODULE Spec2Model ----
(***************************************************************************)
(* Model of the YouTube uploader: the tool server (youtube_uploader.py)    *)
(* and the command-line uploader (youtube_cli.py).                         *)
(*                                                                         *)
(* One invocation runs at a time (the program is single-threaded).  The    *)
(* token file and the credential file are the only state that survives an  *)
(* invocation.  The remote service, the browser flow and the file system   *)
(* are nondeterministic: every outcome they can produce is a choice.       *)
(***************************************************************************)
EXTENDS Integers, Sequences, FiniteSets, TLC

\* ---------------------------------------------------------------- bounds
\* Length of the keyword strings the tags are computed for.
MaxKeywordLen == 4
\* Access tokens are told apart by an identifier 1..MaxToken (0: no token).
MaxToken == 2
\* Partial-progress responses the service gives within one upload.
MaxProgress == 1
\* Video identifiers the service can return.
MaxVideoId == 1

\* ------------------------------------------------------ program constants
\* `if retry > 3`
RetryLimit == 3
\* `time.sleep(5 * retry)`
BackoffUnit == 5

\* The status argparse ends the process with on arguments it rejects.
ArgumentErrorStatus == 2

\* `e.resp.status in [500, 502, 503, 504]`
RETRIABLE_STATUS_CODES == {500, 502, 503, 504}

\* Statuses an HttpError of the service is drawn from (403, 404: not retried).
HttpStatuses == RETRIABLE_STATUS_CODES \cup {403, 404}

TokenIds == 1..MaxToken
VideoIds == 1..MaxVideoId

\* ------------------------------------------------------------ credentials
\* An in-memory google.oauth2 Credentials object, or None (st = "none").
\* token = 0 is a credential without an access token.
NoCreds == [st |-> "none", token |-> 0, expired |-> FALSE, refresh |-> FALSE]

Credentials == [st : {"creds"}, token : 0..MaxToken, expired : BOOLEAN, refresh : BOOLEAN]

\* The token file: absent, unparsable, or the JSON of a credential.
AbsentFile == [st |-> "absent", token |-> 0, expired |-> FALSE, refresh |-> FALSE]

CorruptFile == [st |-> "corrupt", token |-> 0, expired |-> FALSE, refresh |-> FALSE]

TokenFiles == {AbsentFile, CorruptFile}
              \cup [st : {"json"}, token : 0..MaxToken, expired : BOOLEAN, refresh : BOOLEAN]

\* creds.to_json(): the token, the refresh token and the expiry are serialized.
to_json(c) == [st |-> "json", token |-> c.token, expired |-> c.expired, refresh |-> c.refresh]

\* Credentials.from_authorized_user_file on a parsable file.
from_authorized_user_file(f) ==
    [st |-> "creds", token |-> f.token, expired |-> f.expired, refresh |-> f.refresh]

\* creds.valid: an access token is present and it has not expired.
valid(c) == c.st = "creds" /\ c.token # 0 /\ ~c.expired

\* `not creds or not creds.valid`
NeedsLogin_always(c) == TRUE

NeedsLogin(c) == c.st = "none" \/ ~valid(c)

\* `creds and creds.expired and creds.refresh_token`
CanRefresh_never(c) == FALSE

CanRefresh(c) == c.st = "creds" /\ c.expired /\ c.refresh

\* -------------------------------------------------------- app credentials
\* Arguments setup_youtube_auth is called with.
ClientIds == {"client-1", "client-2"}

ClientSecrets == {"secret-1"}

ProjectIds == {"project-1"}

\* The dict setup_youtube_auth builds: the three arguments under "installed",
\* with the fixed endpoints.
AppCredentials_swapped(client_id, client_secret, project_id) ==
    [installed |->
       [client_id |-> client_secret,
        client_secret |-> client_id,
        project_id |-> project_id,
        auth_uri |-> "https://accounts.google.com/o/oauth2/auth",
        token_uri |-> "https://oauth2.googleapis.com/token",
        auth_provider_x509_cert_url |-> "https://www.googleapis.com/oauth2/v1/certs",
        redirect_uris |-> <<"http://localhost">>]]

AppCredentials(client_id, client_secret, project_id) ==
    [installed |->
       [client_id |-> client_id,
        client_secret |-> client_secret,
        project_id |-> project_id,
        auth_uri |-> "https://accounts.google.com/o/oauth2/auth",
        token_uri |-> "https://oauth2.googleapis.com/token",
        auth_provider_x509_cert_url |-> "https://www.googleapis.com/oauth2/v1/certs",
        redirect_uris |-> <<"http://localhost">>]]

\* No setup_youtube_auth call in progress.
NoArgs == [client_id |-> "", client_secret |-> "", project_id |-> ""]

NoInstalled ==
    [client_id |-> "", client_secret |-> "", project_id |-> "", auth_uri |-> "",
     token_uri |-> "", auth_provider_x509_cert_url |-> "", redirect_uris |-> <<>>]

\* The credential file: absent, unparsable (a write that failed half way),
\* or the JSON text of a dict.
AbsentCredFile == [st |-> "absent", installed |-> NoInstalled]

CorruptCredFile == [st |-> "corrupt", installed |-> NoInstalled]

\* json.dump(credentials, f, indent=2): the text of the dict, key by key.
json_dump(d) == [st |-> "json", installed |-> d.installed]

\* json.load of a parsable file: the dict the text denotes.
json_load(f) == [installed |-> f.installed]

CredFiles ==
    {AbsentCredFile, CorruptCredFile}
    \cup {json_dump(AppCredentials(i, s, p)) : i \in ClientIds, s \in ClientSecrets, p \in ProjectIds}

\* ---------------------------------------------------------------- keywords
\* A keyword string is a sequence of characters; MaxKeywordLen bounds the
\* strings the tags are computed for.
KeywordChars == {"a", "b", ","}

\* tags = None, or the list keywords.split(",") gives.
NoTags == [st |-> "none", items |-> <<>>]

TagList(items) == [st |-> "list", items |-> items]

\* ---------------------------------------------------------- upload results
\* f"https://www.youtube.com/watch?v={response['id']}"
WatchUrl_short(id) == <<"https://youtu.be/", id>>

WatchUrl(id) == <<"https://www.youtube.com/watch?v=", id>>

NoUrl == <<>>

\* An error text: what it says and the HTTP status it embeds (0: none).
NoError == <<>>

Error(what, status) == <<what, status>>

NoResult == [set |-> FALSE, success |-> FALSE, video_id |-> 0, url |-> NoUrl, error |-> NoError]

Success(id) == [set |-> TRUE, success |-> TRUE, video_id |-> id, url |-> WatchUrl(id), error |-> NoError]

Failure(e) == [set |-> TRUE, success |-> FALSE, video_id |-> 0, url |-> NoUrl, error |-> e]

\* What one call of insert_request.next_chunk() can do.
\*   progress : (status, None), a chunk was acknowledged
\*   final    : (status, response), response has an id (id # 0) or not (id = 0)
\*   http     : raises HttpError with the given status
\*   exc      : raises another exception
Responses ==
    {[kind |-> "progress", status |-> 0, id |-> 0]}
    \cup [kind : {"final"}, status : {0}, id : {0} \cup VideoIds]
    \cup [kind : {"http"}, status : HttpStatuses, id : {0}]
    \cup {[kind |-> "exc", status |-> 0, id |-> 0]}

\* `e.resp.status in [500, 502, 503, 504]`
IsTransient_wide(status) == status \in RETRIABLE_STATUS_CODES \cup {403}

IsTransient(status) == status \in RETRIABLE_STATUS_CODES

\* `if retry > 3`
RetryExhausted_late(r) == r > RetryLimit + 1

RetryExhausted_early(r) == r >= RetryLimit

RetryExhausted(r) == r > RetryLimit

\* `time.sleep(5 * retry)`
Backoff_flat(r) == BackoffUnit

Backoff(r) == BackoffUnit * r

\* The text a tool returns or the CLI prints: a fixed message and what it embeds.
NoText == [text |-> "none", detail |-> <<>>]

Text(t, d) == [text |-> t, detail |-> d]

\* `if not os.path.exists(options["file"])`
FileMissing_never(f) == FALSE

FileMissing(f) == ~f

\* `if not os.path.exists(CREDENTIALS_FILE)`
CredentialsMissing_never(cf) == FALSE

CredentialsMissing(cf) == cf.st = "absent"

\* `response = None` before the loop of resumable_upload.
NoResponse == [kind |-> "none", status |-> 0, id |-> 0]

\* Two invocations of get_authenticated_service in two processes.
Procs == {1, 2}

\* The locals of one invocation: its position, the credential it loaded, the
\* one it holds, the service it returned, the exception it raised and how it
\* got its credential.
NoProc == [pc |-> "off", loaded |-> NoCreds, creds |-> NoCreds, service |-> NoCreds,
           exc |-> "none", did |-> "none"]

\* log: what was done to the token file, in order; dirty: text was written
\* to the file since it was last truncated.
NoRace == [proc |-> [p \in Procs |-> NoProc], log |-> <<>>, dirty |-> FALSE]

Last(s) == s[Len(s)]

\* Index of the first comma of s (0: none).
FirstComma(s) ==
    IF \E i \in 1..Len(s) : s[i] = ","
      THEN CHOOSE i \in 1..Len(s) : s[i] = "," /\ \A j \in 1..(i - 1) : s[j] # ","
      ELSE 0

\* str.split(","): the pieces between the commas, empty ones included.
RECURSIVE split(_)
split(s) ==
    IF FirstComma(s) = 0
      THEN <<s>>
      ELSE <<SubSeq(s, 1, FirstComma(s) - 1)>> \o split(SubSeq(s, FirstComma(s) + 1, Len(s)))

\* tags = None; if options.get("keywords"): tags = options["keywords"].split(",")
TagsOf(k) == IF k # <<>> THEN TagList(split(k)) ELSE NoTags

KeywordStrings == UNION {[1..n -> KeywordChars] : n \in 0..MaxKeywordLen}

Count(s, kind) == Cardinality({i \in 1..Len(s) : s[i].kind = kind})

\* ------------------------------------------------------------------ state
VARIABLES
    tokenFile,     \* TOKEN_FILE on disk
    credFile,      \* CREDENTIALS_FILE on disk
    op,            \* the operation in progress ("none" before the first)
    pc,            \* the position in it
    fileExists,    \* os.path.exists of the video file of this invocation
    tokenAtStart,  \* the token file when the invocation began
    creds,         \* local `creds` of get_authenticated_service
    service,       \* the credential the built service uses
    events,        \* side effects of this invocation, in order
    history,       \* what next_chunk did, call by call
    retry,         \* local `retry` of resumable_upload
    sleeps,        \* arguments of time.sleep, in order
    uploadResult,  \* the dict resumable_upload returned
    exc,           \* the exception being propagated
    result,        \* the text the tool returned / the CLI printed last
    exitCode,      \* exit code of the CLI process (-1: none)
    keywords,      \* the keywords argument callers pass
    tags,          \* local `tags` of initialize_upload / the CLI upload_video
    acked,         \* chunks the session of insert_request has acknowledged
    response,      \* local `response` of the upload loop
    race,          \* concurrent invocations of get_authenticated_service
    setupArgs      \* the arguments of the setup_youtube_auth call in progress

vars == <<tokenFile, credFile, op, pc, fileExists, tokenAtStart, creds, service,
          events, history, retry, sleeps, uploadResult, exc, result, exitCode,
          keywords, tags, acked, response, race, setupArgs>>

rest == <<keywords, tags, acked, response, race, setupArgs>>

files == <<tokenFile, credFile>>

upload == <<history, retry, sleeps, uploadResult>>

Init ==
    /\ tokenFile \in TokenFiles
    /\ credFile \in CredFiles \ {CorruptCredFile}
    /\ op = "none"
    /\ pc = "idle"
    /\ fileExists = FALSE
    /\ tokenAtStart = tokenFile
    /\ creds = NoCreds
    /\ service = NoCreds
    /\ events = <<>>
    /\ history = <<>>
    /\ retry = 0
    /\ sleeps = <<>>
    /\ uploadResult = NoResult
    /\ exc = "none"
    /\ result = NoText
    /\ exitCode = -1
    /\ keywords = <<>>
    /\ tags = NoTags
    /\ acked = 0
    /\ response = NoResponse
    /\ race = NoRace
    /\ setupArgs = NoArgs

\* A new invocation starts with fresh locals.
Begin(o, p, f) ==
    /\ pc \in {"idle", "done"}
    /\ op' = o
    /\ pc' = p
    /\ fileExists' = f
    /\ tokenAtStart' = tokenFile
    /\ creds' = NoCreds
    /\ service' = NoCreds
    /\ events' = <<>>
    /\ history' = <<>>
    /\ retry' = 0
    /\ sleeps' = <<>>
    /\ uploadResult' = NoResult
    /\ exc' = "none"
    /\ result' = NoText
    /\ exitCode' = -1
    /\ tags' = NoTags
    /\ acked' = 0
    /\ response' = NoResponse
    /\ setupArgs' = NoArgs
    /\ UNCHANGED <<files, keywords, race>>

Raise(e) == pc' = "except" /\ exc' = e

Log(e) == events' = Append(events, e)

\* The tools that call get_authenticated_service.
ServerOps == {"upload_video", "check_upload_quota", "list_video_categories"}

\* ------------------------------------------------------------ environment
\* Time passes between invocations: the access token on disk expires.
TokenExpires ==
    /\ pc \in {"idle", "done"}
    /\ tokenFile.st = "json"
    /\ ~tokenFile.expired
    /\ tokenFile' = [tokenFile EXCEPT !.expired = TRUE]
    /\ tokenAtStart' = tokenFile'
    /\ op' = "none"
    /\ pc' = "idle"
    /\ fileExists' = FALSE
    /\ creds' = NoCreds
    /\ service' = NoCreds
    /\ events' = <<>>
    /\ history' = <<>>
    /\ retry' = 0
    /\ sleeps' = <<>>
    /\ uploadResult' = NoResult
    /\ exc' = "none"
    /\ result' = NoText
    /\ exitCode' = -1
    /\ tags' = NoTags
    /\ acked' = 0
    /\ response' = NoResponse
    /\ setupArgs' = NoArgs
    /\ UNCHANGED <<credFile, keywords, race>>

\* ----------------------------- youtube_uploader.py: get_authenticated_service
\* creds = None; load the token file when it exists.
gas_load ==
    /\ op \in ServerOps
    /\ pc = "gas_load"
    /\ \/ /\ tokenFile.st = "absent"
          /\ creds' = NoCreds
          /\ pc' = "gas_decide"
          /\ UNCHANGED exc
       \/ /\ tokenFile.st = "json"
          /\ creds' = from_authorized_user_file(tokenFile)
          /\ pc' = "gas_decide"
          /\ UNCHANGED exc
       \/ /\ tokenFile.st = "corrupt"
          /\ Raise("TokenParseError")
          /\ UNCHANGED creds
    /\ UNCHANGED <<files, op, fileExists, tokenAtStart, service, events, result, exitCode>>
    /\ UNCHANGED upload
    /\ UNCHANGED rest

\* The branch on the loaded credential, and the check of the credential file.
gas_decide ==
    /\ op \in ServerOps
    /\ pc = "gas_decide"
    /\ IF ~NeedsLogin(creds)
         THEN pc' = "gas_build" /\ UNCHANGED exc
         ELSE IF CanRefresh(creds)
           THEN pc' = "gas_refresh" /\ UNCHANGED exc
           ELSE IF CredentialsMissing(credFile)
             THEN Raise("MissingCredentials")
             ELSE pc' = "gas_flow" /\ UNCHANGED exc
    /\ UNCHANGED <<files, op, fileExists, tokenAtStart, creds, service, events,
                   result, exitCode>>
    /\ UNCHANGED upload
    /\ UNCHANGED rest

\* creds.refresh(Request()): a call to the token endpoint; it gives a new
\* access token or raises.
gas_refresh ==
    /\ op \in ServerOps
    /\ pc = "gas_refresh"
    /\ Log("refresh")
    /\ \/ /\ \E t \in TokenIds \ {creds.token} :
                creds' = [creds EXCEPT !.token = t, !.expired = FALSE]
          /\ pc' = "gas_save"
          /\ UNCHANGED exc
       \/ /\ Raise("RefreshError")
          /\ UNCHANGED creds
    /\ UNCHANGED <<files, op, fileExists, tokenAtStart, service, result, exitCode>>
    /\ UNCHANGED upload
    /\ UNCHANGED rest

\* InstalledAppFlow.from_client_secrets_file + flow.run_local_server(port=0):
\* an unparsable credential file raises before the listener opens; the
\* browser flow gives a credential or raises.
gas_flow ==
    /\ op \in ServerOps
    /\ pc = "gas_flow"
    /\ \/ /\ credFile.st = "json"
          /\ Log("flow")
          /\ \E t \in TokenIds, r \in BOOLEAN :
                creds' = [st |-> "creds", token |-> t, expired |-> FALSE, refresh |-> r]
          /\ pc' = "gas_save"
          /\ UNCHANGED exc
       \/ /\ credFile.st = "json"
          /\ Log("flow")
          /\ Raise("FlowError")
          /\ UNCHANGED creds
       \/ /\ credFile.st # "json"
          /\ Raise("ClientSecretsError")
          /\ UNCHANGED <<creds, events>>
    /\ UNCHANGED <<files, op, fileExists, tokenAtStart, service, result, exitCode>>
    /\ UNCHANGED upload
    /\ UNCHANGED rest

\* get_authenticated_service without its save: the credential is not persisted.
gas_save_missing ==
    /\ op \in ServerOps
    /\ pc = "gas_save"
    /\ pc' = "gas_build"
    /\ UNCHANGED <<files, op, fileExists, tokenAtStart, creds, service, events,
                   exc, result, exitCode>>
    /\ UNCHANGED upload
    /\ UNCHANGED rest

\* with open(TOKEN_FILE, 'w') as token: token.write(creds.to_json())
\* The write succeeds, or open fails (file untouched), or the write fails
\* after open truncated the file.
gas_save ==
    /\ op \in ServerOps
    /\ pc = "gas_save"
    /\ \/ /\ tokenFile' = to_json(creds)
          /\ Log("write_token")
          /\ pc' = "gas_build"
          /\ UNCHANGED exc
       \/ /\ UNCHANGED <<tokenFile, events>>
          /\ Raise("WriteError")
       \/ /\ tokenFile' = CorruptFile
          /\ Log("truncate_token")
          /\ Raise("WriteError")
    /\ UNCHANGED <<credFile, op, fileExists, tokenAtStart, creds, service, result, exitCode>>
    /\ UNCHANGED upload
    /\ UNCHANGED rest

\* return build(API_SERVICE_NAME, API_VERSION, credentials=creds)
gas_build ==
    /\ op \in ServerOps
    /\ pc = "gas_build"
    /\ service' = creds
    /\ pc' = "after_auth"
    /\ UNCHANGED <<files, op, fileExists, tokenAtStart, creds, events, exc, result, exitCode>>
    /\ UNCHANGED upload
    /\ UNCHANGED rest

\* ------------------------------------------ youtube_uploader.py: upload_video
\* The tool is called with a file path that exists or does not.
upload_video_call == \E f \in BOOLEAN : Begin("upload_video", "gas_load", f)

\* initialize_upload up to the file check: the body is built, then
\* FileNotFoundError is raised when the file does not exist.
initialize_upload_check ==
    /\ op = "upload_video"
    /\ pc = "after_auth"
    /\ tags' = TagsOf(keywords)
    /\ IF FileMissing(fileExists)
         THEN Raise("FileNotFoundError")
         ELSE pc' = "init_media" /\ UNCHANGED exc
    /\ UNCHANGED <<files, op, fileExists, tokenAtStart, creds, service, events,
                   result, exitCode>>
    /\ UNCHANGED upload
    /\ UNCHANGED <<keywords, acked, response, race, setupArgs>>

\* media = MediaFileUpload(options["file"], chunksize=-1, resumable=True, ...)
initialize_upload_media ==
    /\ op = "upload_video"
    /\ pc = "init_media"
    /\ Log("media")
    /\ pc' = "init_insert"
    /\ UNCHANGED <<files, op, fileExists, tokenAtStart, creds, service, exc,
                   result, exitCode>>
    /\ UNCHANGED upload
    /\ UNCHANGED rest

\* insert_request = youtube.videos().insert(...); return resumable_upload(...)
\* resumable_upload starts with retry = 0 and no response.
initialize_upload_insert ==
    /\ op = "upload_video"
    /\ pc = "init_insert"
    /\ Log("insert")
    /\ pc' = "loop"
    /\ retry' = 0
    /\ acked' = 0
    /\ response' = NoResponse
    /\ UNCHANGED <<files, op, fileExists, tokenAtStart, creds, service, exc,
                   result, exitCode, history, sleeps, uploadResult>>
    /\ UNCHANGED <<keywords, tags, race, setupArgs>>

\* `if response is not None`: both branches return from inside the loop.
OnResponse_fallthrough(r) ==
    IF r.id # 0
      THEN uploadResult' = Success(r.id) /\ pc' = "format"
      ELSE pc' = "loop" /\ UNCHANGED uploadResult

OnResponse(r) ==
    /\ uploadResult' = IF r.id # 0
                         THEN Success(r.id)
                         ELSE Failure(Error("Upload failed with unexpected response", 0))
    /\ pc' = "format"

\* The next call of next_chunk on the same insert_request goes on from the
\* offset its session has acknowledged.
ResumeOffset_restart(a) == 0

ResumeOffset(a) == a

\* One iteration of resumable_upload: the test of `while response is None`
\* (when it fails the function returns "Upload failed"), then next_chunk and
\* what follows it.
resumable_upload_step ==
    /\ op = "upload_video"
    /\ pc = "loop"
    /\ IF response # NoResponse
         THEN /\ uploadResult' = Failure(Error("Upload failed", 0))
              /\ pc' = "format"
              /\ UNCHANGED <<history, retry, sleeps, acked, response>>
         ELSE \E r \in Responses :
           /\ r.kind = "progress" => Count(history, "progress") < MaxProgress
           /\ history' = Append(history, r)
           /\ CASE r.kind = "progress" ->
                     /\ pc' = "loop"
                     /\ acked' = ResumeOffset(acked) + 1
                     /\ response' = NoResponse
                     /\ UNCHANGED <<retry, sleeps, uploadResult>>
                [] r.kind = "final" ->
                     /\ response' = r
                     /\ OnResponse(r)
                     /\ acked' = ResumeOffset(acked) + 1
                     /\ UNCHANGED <<retry, sleeps>>
                [] r.kind = "http" /\ IsTransient(r.status) ->
                     /\ retry' = retry + 1
                     /\ acked' = ResumeOffset(acked)
                     /\ IF RetryExhausted(retry')
                          THEN /\ uploadResult' = Failure(Error("HTTP error", r.status))
                               /\ pc' = "format"
                               /\ UNCHANGED sleeps
                          ELSE /\ sleeps' = Append(sleeps, Backoff(retry'))
                               /\ pc' = "loop"
                               /\ UNCHANGED uploadResult
                     /\ UNCHANGED response
                [] r.kind = "http" /\ ~IsTransient(r.status) ->
                     /\ uploadResult' = Failure(Error("HttpError", r.status))
                     /\ pc' = "format"
                     /\ acked' = ResumeOffset(acked)
                     /\ UNCHANGED <<retry, sleeps, response>>
                [] r.kind = "exc" ->
                     /\ uploadResult' = Failure(Error("Exception", 0))
                     /\ pc' = "format"
                     /\ acked' = ResumeOffset(acked)
                     /\ UNCHANGED <<retry, sleeps, response>>
    /\ UNCHANGED <<files, op, fileExists, tokenAtStart, creds, service, events,
                   exc, result, exitCode>>
    /\ UNCHANGED <<keywords, tags, race, setupArgs>>

\* if result["success"]: return "Video uploaded successfully!..." else
\* return f"Upload failed: {result['error']}"
upload_video_format ==
    /\ op = "upload_video"
    /\ pc = "format"
    /\ result' = IF uploadResult.success
                   THEN Text("Video uploaded successfully!", uploadResult.url)
                   ELSE Text("Upload failed", uploadResult.error)
    /\ pc' = "done"
    /\ UNCHANGED <<files, op, fileExists, tokenAtStart, creds, service, events,
                   exc, exitCode>>
    /\ UNCHANGED upload
    /\ UNCHANGED rest

\* upload_video with a handler that lets the exception through.
upload_video_except_reraise ==
    /\ op = "upload_video"
    /\ pc = "except"
    /\ pc' = "done"
    /\ UNCHANGED <<files, op, fileExists, tokenAtStart, creds, service, events,
                   exc, result, exitCode>>
    /\ UNCHANGED upload
    /\ UNCHANGED rest

\* except Exception as e: return f"Error uploading video: {str(e)}"
upload_video_except ==
    /\ op = "upload_video"
    /\ pc = "except"
    /\ result' = Text("Error uploading video", <<exc>>)
    /\ pc' = "done"
    /\ exc' = "none"
    /\ UNCHANGED <<files, op, fileExists, tokenAtStart, creds, service, events, exitCode>>
    /\ UNCHANGED upload
    /\ UNCHANGED rest

\* ------------------------------------- youtube_uploader.py: check_upload_quota
check_upload_quota_call == Begin("check_upload_quota", "gas_load", FALSE)

\* youtube.channels().list(...).execute(): the reply lists a channel, lists
\* none, or the call raises.
check_upload_quota_probe ==
    /\ op = "check_upload_quota"
    /\ pc = "after_auth"
    /\ Log("api")
    /\ \/ /\ result' = Text("Authentication successful", <<"channel">>)
          /\ pc' = "done"
          /\ UNCHANGED exc
       \/ /\ result' = Text("Authentication successful but no channel found.", <<>>)
          /\ pc' = "done"
          /\ UNCHANGED exc
       \/ /\ Raise("HttpError")
          /\ UNCHANGED result
    /\ UNCHANGED <<files, op, fileExists, tokenAtStart, creds, service, exitCode>>
    /\ UNCHANGED upload
    /\ UNCHANGED rest

\* except Exception as e: return f"Error checking quota: {str(e)}"
check_upload_quota_except ==
    /\ op = "check_upload_quota"
    /\ pc = "except"
    /\ result' = Text("Error checking quota", <<exc>>)
    /\ pc' = "done"
    /\ exc' = "none"
    /\ UNCHANGED <<files, op, fileExists, tokenAtStart, creds, service, events, exitCode>>
    /\ UNCHANGED upload
    /\ UNCHANGED rest

\* -------------------------------------------------- youtube_cli.py: main
cli_main_call == \E f \in BOOLEAN : Begin("cli_main", "cli_parse", f)

\* args = parser.parse_args(): argparse ends the process with status 2 on
\* arguments it rejects (no title, a privacy outside the choices) and with
\* status 0 after printing the help for -h.
cli_parse_args ==
    /\ op = "cli_main"
    /\ pc = "cli_parse"
    /\ \/ /\ pc' = "cli_check_file"
          /\ UNCHANGED <<result, exitCode>>
       \/ /\ result' = Text("usage", <<>>)
          /\ exitCode' = ArgumentErrorStatus
          /\ pc' = "done"
       \/ /\ result' = Text("help", <<>>)
          /\ exitCode' = 0
          /\ pc' = "done"
    /\ UNCHANGED <<files, op, fileExists, tokenAtStart, creds, service, events, exc>>
    /\ UNCHANGED upload
    /\ UNCHANGED rest

\* if not os.path.exists(args.file): print(...); sys.exit(1)
cli_check_file ==
    /\ op = "cli_main"
    /\ pc = "cli_check_file"
    /\ IF FileMissing(fileExists)
         THEN /\ result' = Text("Error: File not found", <<>>)
              /\ exitCode' = 1
              /\ pc' = "done"
         ELSE /\ pc' = "cli_gas_load"
              /\ UNCHANGED <<result, exitCode>>
    /\ UNCHANGED <<files, op, fileExists, tokenAtStart, creds, service, events, exc>>
    /\ UNCHANGED upload
    /\ UNCHANGED rest

\* An exception inside `try: youtube = get_authenticated_service()`.
CliAuthRaise(e) == pc' = "cli_auth_except" /\ exc' = e

\* ----------------------------- youtube_cli.py: get_authenticated_service
cli_gas_load ==
    /\ op = "cli_main"
    /\ pc = "cli_gas_load"
    /\ \/ /\ tokenFile.st = "absent"
          /\ creds' = NoCreds
          /\ pc' = "cli_gas_decide"
          /\ UNCHANGED exc
       \/ /\ tokenFile.st = "json"
          /\ creds' = from_authorized_user_file(tokenFile)
          /\ pc' = "cli_gas_decide"
          /\ UNCHANGED exc
       \/ /\ tokenFile.st = "corrupt"
          /\ CliAuthRaise("TokenParseError")
          /\ UNCHANGED creds
    /\ UNCHANGED <<files, op, fileExists, tokenAtStart, service, events, result, exitCode>>
    /\ UNCHANGED upload
    /\ UNCHANGED rest

\* The branch on the loaded credential; without a credential file the CLI
\* prints how to get one and calls sys.exit(1).
cli_gas_decide ==
    /\ op = "cli_main"
    /\ pc = "cli_gas_decide"
    /\ IF ~NeedsLogin(creds)
         THEN pc' = "cli_gas_build" /\ UNCHANGED <<result, exitCode>>
         ELSE IF CanRefresh(creds)
           THEN pc' = "cli_gas_refresh" /\ UNCHANGED <<result, exitCode>>
           ELSE IF CredentialsMissing(credFile)
             THEN /\ result' = Text("Error: Missing credentials.json",
                                    <<"Please download OAuth2 credentials from Google Cloud Console">>)
                  /\ exitCode' = 1
                  /\ pc' = "done"
             ELSE pc' = "cli_gas_flow" /\ UNCHANGED <<result, exitCode>>
    /\ UNCHANGED <<files, op, fileExists, tokenAtStart, creds, service, events, exc>>
    /\ UNCHANGED upload
    /\ UNCHANGED rest

cli_gas_refresh ==
    /\ op = "cli_main"
    /\ pc = "cli_gas_refresh"
    /\ Log("refresh")
    /\ \/ /\ \E t \in TokenIds \ {creds.token} :
                creds' = [creds EXCEPT !.token = t, !.expired = FALSE]
          /\ pc' = "cli_gas_save"
          /\ UNCHANGED exc
       \/ /\ CliAuthRaise("RefreshError")
          /\ UNCHANGED creds
    /\ UNCHANGED <<files, op, fileExists, tokenAtStart, service, result, exitCode>>
    /\ UNCHANGED upload
    /\ UNCHANGED rest

cli_gas_flow ==
    /\ op = "cli_main"
    /\ pc = "cli_gas_flow"
    /\ \/ /\ credFile.st = "json"
          /\ Log("flow")
          /\ \E t \in TokenIds, r \in BOOLEAN :
                creds' = [st |-> "creds", token |-> t, expired |-> FALSE, refresh |-> r]
          /\ pc' = "cli_gas_save"
          /\ UNCHANGED exc
       \/ /\ credFile.st = "json"
          /\ Log("flow")
          /\ CliAuthRaise("FlowError")
          /\ UNCHANGED creds
       \/ /\ credFile.st # "json"
          /\ CliAuthRaise("ClientSecretsError")
          /\ UNCHANGED <<creds, events>>
    /\ UNCHANGED <<files, op, fileExists, tokenAtStart, service, result, exitCode>>
    /\ UNCHANGED upload
    /\ UNCHANGED rest

cli_gas_save ==
    /\ op = "cli_main"
    /\ pc = "cli_gas_save"
    /\ \/ /\ tokenFile' = to_json(creds)
          /\ Log("write_token")
          /\ pc' = "cli_gas_build"
          /\ UNCHANGED exc
       \/ /\ UNCHANGED <<tokenFile, events>>
          /\ CliAuthRaise("WriteError")
       \/ /\ tokenFile' = CorruptFile
          /\ Log("truncate_token")
          /\ CliAuthRaise("WriteError")
    /\ UNCHANGED <<credFile, op, fileExists, tokenAtStart, creds, service, result, exitCode>>
    /\ UNCHANGED upload
    /\ UNCHANGED rest

cli_gas_build ==
    /\ op = "cli_main"
    /\ pc = "cli_gas_build"
    /\ service' = creds
    /\ pc' = "cli_upload"
    /\ UNCHANGED <<files, op, fileExists, tokenAtStart, creds, events, exc, result, exitCode>>
    /\ UNCHANGED upload
    /\ UNCHANGED rest

\* except Exception as e: print(f"Authentication error: {e}"); sys.exit(1)
cli_main_auth_except ==
    /\ op = "cli_main"
    /\ pc = "cli_auth_except"
    /\ result' = Text("Authentication error", <<exc>>)
    /\ exitCode' = 1
    /\ pc' = "done"
    /\ exc' = "none"
    /\ UNCHANGED <<files, op, fileExists, tokenAtStart, creds, service, events>>
    /\ UNCHANGED upload
    /\ UNCHANGED rest

\* ------------------------------------------- youtube_cli.py: upload_video
\* The body, MediaFileUpload(...) and youtube.videos().insert(...).
cli_upload_insert ==
    /\ op = "cli_main"
    /\ pc = "cli_upload"
    /\ tags' = TagsOf(keywords)
    /\ events' = events \o <<"media", "insert">>
    /\ pc' = "cli_loop"
    /\ acked' = 0
    /\ response' = NoResponse
    /\ UNCHANGED <<files, op, fileExists, tokenAtStart, creds, service, exc,
                   result, exitCode>>
    /\ UNCHANGED upload
    /\ UNCHANGED <<keywords, race, setupArgs>>

\* One iteration of `while response is None` in the CLI: an HttpError is
\* printed and ends the process, any other exception reaches main.
cli_upload_step ==
    /\ op = "cli_main"
    /\ pc = "cli_loop"
    /\ \E r \in Responses :
        /\ r.kind = "progress" => Count(history, "progress") < MaxProgress
        /\ history' = Append(history, r)
        /\ CASE r.kind = "progress" ->
                  /\ pc' = "cli_loop"
                  /\ acked' = acked + 1
                  /\ UNCHANGED <<exc, result, exitCode, response>>
             [] r.kind = "final" ->
                  /\ pc' = "cli_print"
                  /\ acked' = acked + 1
                  /\ response' = r
                  /\ UNCHANGED <<exc, result, exitCode>>
             [] r.kind = "http" ->
                  /\ result' = Text("HTTP error", <<"HttpError", r.status>>)
                  /\ exitCode' = 1
                  /\ pc' = "done"
                  /\ UNCHANGED <<exc, acked, response>>
             [] r.kind = "exc" ->
                  /\ pc' = "cli_upload_except"
                  /\ exc' = "Exception"
                  /\ UNCHANGED <<result, exitCode, acked, response>>
    /\ UNCHANGED <<files, op, fileExists, tokenAtStart, creds, service, events,
                   retry, sleeps, uploadResult>>
    /\ UNCHANGED <<keywords, tags, race, setupArgs>>

\* print("Upload successful!"); print(f"Video ID: {response['id']}"); ...
\* response['id'] raises KeyError when the response has no id; otherwise
\* main returns and the process ends with status 0.
cli_upload_print ==
    /\ op = "cli_main"
    /\ pc = "cli_print"
    /\ IF response.id # 0
         THEN /\ result' = Text("Upload successful!", WatchUrl(response.id))
              /\ exitCode' = 0
              /\ pc' = "done"
              /\ UNCHANGED exc
         ELSE /\ result' = Text("Upload successful!", <<>>)
              /\ pc' = "cli_upload_except"
              /\ exc' = "KeyError"
              /\ UNCHANGED exitCode
    /\ UNCHANGED <<files, op, fileExists, tokenAtStart, creds, service, events>>
    /\ UNCHANGED upload
    /\ UNCHANGED rest

\* The handler of main without its sys.exit(1): main returns after the print.
cli_main_upload_except_return ==
    /\ op = "cli_main"
    /\ pc = "cli_upload_except"
    /\ result' = Text("Upload error", <<exc>>)
    /\ exitCode' = 0
    /\ pc' = "done"
    /\ exc' = "none"
    /\ UNCHANGED <<files, op, fileExists, tokenAtStart, creds, service, events>>
    /\ UNCHANGED upload
    /\ UNCHANGED rest

\* except Exception as e: print(f"Upload error: {e}"); sys.exit(1)
cli_main_upload_except ==
    /\ op = "cli_main"
    /\ pc = "cli_upload_except"
    /\ result' = Text("Upload error", <<exc>>)
    /\ exitCode' = 1
    /\ pc' = "done"
    /\ exc' = "none"
    /\ UNCHANGED <<files, op, fileExists, tokenAtStart, creds, service, events>>
    /\ UNCHANGED upload
    /\ UNCHANGED rest

\* ---------------------------------- youtube_uploader.py: list_video_categories
list_video_categories_call == Begin("list_video_categories", "gas_load", FALSE)

\* youtube.videoCategories().list(...).execute() and the loop over the
\* items: the list is returned, or the call or an item without the expected
\* keys raises.
list_video_categories_request ==
    /\ op = "list_video_categories"
    /\ pc = "after_auth"
    /\ Log("api")
    /\ \/ /\ result' = Text("Available YouTube Categories", <<>>)
          /\ pc' = "done"
          /\ UNCHANGED exc
       \/ /\ \E e \in {"HttpError", "KeyError"} : Raise(e)
          /\ UNCHANGED result
    /\ UNCHANGED <<files, op, fileExists, tokenAtStart, creds, service, exitCode>>
    /\ UNCHANGED upload
    /\ UNCHANGED rest

\* except Exception as e: return f"Error listing categories: {str(e)}"
list_video_categories_except ==
    /\ op = "list_video_categories"
    /\ pc = "except"
    /\ result' = Text("Error listing categories", <<exc>>)
    /\ pc' = "done"
    /\ exc' = "none"
    /\ UNCHANGED <<files, op, fileExists, tokenAtStart, creds, service, events, exitCode>>
    /\ UNCHANGED upload
    /\ UNCHANGED rest

\* ------------------------------------- youtube_uploader.py: setup_youtube_auth
\* The tool is called with a client id, a client secret and a project id.
setup_youtube_auth_call ==
    /\ \E i \in ClientIds, sec \in ClientSecrets, pr \in ProjectIds :
         setupArgs' = [client_id |-> i, client_secret |-> sec, project_id |-> pr]
    /\ pc \in {"idle", "done"}
    /\ op' = "setup_youtube_auth"
    /\ pc' = "setup_write"
    /\ fileExists' = FALSE
    /\ tokenAtStart' = tokenFile
    /\ creds' = NoCreds
    /\ service' = NoCreds
    /\ events' = <<>>
    /\ history' = <<>>
    /\ retry' = 0
    /\ sleeps' = <<>>
    /\ uploadResult' = NoResult
    /\ exc' = "none"
    /\ result' = NoText
    /\ exitCode' = -1
    /\ tags' = NoTags
    /\ acked' = 0
    /\ response' = NoResponse
    /\ UNCHANGED <<files, keywords, race>>

\* The dict is built and dumped to CREDENTIALS_FILE, opened with 'w'; the
\* write succeeds, or open fails (file untouched), or the dump fails after
\* open truncated the file.
setup_youtube_auth_write ==
    /\ op = "setup_youtube_auth"
    /\ pc = "setup_write"
    /\ \/ /\ credFile' = json_dump(AppCredentials(setupArgs.client_id,
                                                  setupArgs.client_secret,
                                                  setupArgs.project_id))
          /\ Log("write_credentials")
          /\ result' = Text("Credentials saved", <<"Run 'upload_video' to authenticate.">>)
          /\ pc' = "done"
          /\ UNCHANGED exc
       \/ /\ UNCHANGED <<credFile, events, result>>
          /\ Raise("WriteError")
       \/ /\ credFile' = CorruptCredFile
          /\ Log("truncate_credentials")
          /\ Raise("WriteError")
          /\ UNCHANGED result
    /\ UNCHANGED <<tokenFile, op, fileExists, tokenAtStart, creds, service, exitCode>>
    /\ UNCHANGED upload
    /\ UNCHANGED rest

\* except Exception as e: return f"Error setting up credentials: {str(e)}"
setup_youtube_auth_except ==
    /\ op = "setup_youtube_auth"
    /\ pc = "except"
    /\ result' = Text("Error setting up credentials", <<exc>>)
    /\ pc' = "done"
    /\ exc' = "none"
    /\ UNCHANGED <<files, op, fileExists, tokenAtStart, creds, service, events, exitCode>>
    /\ UNCHANGED upload
    /\ UNCHANGED rest

\* -------------------------------- youtube_uploader.py: authorize_youtube_access
authorize_youtube_access_call == Begin("authorize_youtube_access", "az_check", FALSE)

\* if not os.path.exists(CREDENTIALS_FILE): return the setup instructions
authorize_check_credentials ==
    /\ op = "authorize_youtube_access"
    /\ pc = "az_check"
    /\ IF CredentialsMissing(credFile)
         THEN /\ result' = Text("OAuth2 client credentials not found.", <<>>)
              /\ pc' = "done"
         ELSE /\ pc' = "az_probe"
              /\ UNCHANGED result
    /\ UNCHANGED <<files, op, fileExists, tokenAtStart, creds, service, events, exc, exitCode>>
    /\ UNCHANGED upload
    /\ UNCHANGED rest

\* authorize_youtube_access without its already-authenticated check.
authorize_probe_skip ==
    /\ op = "authorize_youtube_access"
    /\ pc = "az_probe"
    /\ pc' = "az_flow"
    /\ UNCHANGED <<files, op, fileExists, tokenAtStart, creds, service, events,
                   exc, result, exitCode>>
    /\ UNCHANGED upload
    /\ UNCHANGED rest

\* The already-authenticated check: with a token file whose credential is
\* valid, channels().list is called; a channel returns "Already
\* authenticated"; an exception is swallowed; everything else falls through
\* to the flow.
authorize_probe ==
    /\ op = "authorize_youtube_access"
    /\ pc = "az_probe"
    /\ \/ /\ tokenFile.st = "absent"
          /\ pc' = "az_flow"
          /\ UNCHANGED <<creds, service, events, result>>
       \/ /\ tokenFile.st = "corrupt"
          /\ pc' = "az_flow"
          /\ UNCHANGED <<creds, service, events, result>>
       \/ /\ tokenFile.st = "json"
          /\ ~valid(from_authorized_user_file(tokenFile))
          /\ creds' = from_authorized_user_file(tokenFile)
          /\ pc' = "az_flow"
          /\ UNCHANGED <<service, events, result>>
       \/ /\ tokenFile.st = "json"
          /\ valid(from_authorized_user_file(tokenFile))
          /\ creds' = from_authorized_user_file(tokenFile)
          /\ service' = creds'
          /\ Log("api")
          /\ \/ /\ result' = Text("Already authenticated!", <<"channel">>)
                /\ pc' = "done"
             \/ /\ pc' = "az_flow"
                /\ UNCHANGED result
    /\ UNCHANGED <<files, op, fileExists, tokenAtStart, exc, exitCode>>
    /\ UNCHANGED upload
    /\ UNCHANGED rest

\* InstalledAppFlow.from_client_secrets_file, then flow.run_local_server on
\* localhost:8080: a credential, or an exception (redirect mismatch, consent
\* denied, anything else).
authorize_flow ==
    /\ op = "authorize_youtube_access"
    /\ pc = "az_flow"
    /\ \/ /\ credFile.st = "json"
          /\ Log("flow")
          /\ \E t \in TokenIds, r \in BOOLEAN :
                creds' = [st |-> "creds", token |-> t, expired |-> FALSE, refresh |-> r]
          /\ pc' = "az_save"
          /\ UNCHANGED exc
       \/ /\ credFile.st = "json"
          /\ Log("flow")
          /\ \E e \in {"redirect_uri_mismatch", "access_denied", "FlowError"} : Raise(e)
          /\ UNCHANGED creds
       \/ /\ credFile.st # "json"
          /\ Raise("ClientSecretsError")
          /\ UNCHANGED <<creds, events>>
    /\ UNCHANGED <<files, op, fileExists, tokenAtStart, service, result, exitCode>>
    /\ UNCHANGED upload
    /\ UNCHANGED rest

\* with open(TOKEN_FILE, 'w') as token: token.write(creds.to_json())
authorize_save ==
    /\ op = "authorize_youtube_access"
    /\ pc = "az_save"
    /\ \/ /\ tokenFile' = to_json(creds)
          /\ Log("write_token")
          /\ pc' = "az_verify"
          /\ UNCHANGED exc
       \/ /\ UNCHANGED <<tokenFile, events>>
          /\ Raise("WriteError")
       \/ /\ tokenFile' = CorruptFile
          /\ Log("truncate_token")
          /\ Raise("WriteError")
    /\ UNCHANGED <<credFile, op, fileExists, tokenAtStart, creds, service, result, exitCode>>
    /\ UNCHANGED upload
    /\ UNCHANGED rest

\* The service is built on the new credential and channels().list is called.
authorize_verify ==
    /\ op = "authorize_youtube_access"
    /\ pc = "az_verify"
    /\ service' = creds
    /\ Log("api")
    /\ \/ /\ result' = Text("Authorization successful!", <<"channel">>)
          /\ pc' = "done"
          /\ UNCHANGED exc
       \/ /\ result' = Text("Authorization completed but no YouTube channel found.", <<>>)
          /\ pc' = "done"
          /\ UNCHANGED exc
       \/ /\ Raise("HttpError")
          /\ UNCHANGED result
    /\ UNCHANGED <<files, op, fileExists, tokenAtStart, creds, exitCode>>
    /\ UNCHANGED upload
    /\ UNCHANGED rest

\* except Exception as e: the text is chosen by what str(e) contains.
authorize_except ==
    /\ op = "authorize_youtube_access"
    /\ pc = "except"
    /\ result' = IF exc = "redirect_uri_mismatch"
                   THEN Text("OAuth Configuration Error: redirect_uri_mismatch", <<>>)
                   ELSE IF exc = "access_denied"
                     THEN Text("Authorization denied by user.", <<>>)
                     ELSE Text("Authorization failed", <<exc>>)
    /\ pc' = "done"
    /\ exc' = "none"
    /\ UNCHANGED <<files, op, fileExists, tokenAtStart, creds, service, events, exitCode>>
    /\ UNCHANGED upload
    /\ UNCHANGED rest

\* ------------------------------------------------------------ specification
Next ==
    \/ TokenExpires
    \/ gas_load
    \/ gas_decide
    \/ gas_refresh
    \/ gas_flow
    \/ gas_save
    \/ gas_build
    \/ upload_video_call
    \/ initialize_upload_check
    \/ initialize_upload_media
    \/ initialize_upload_insert
    \/ resumable_upload_step
    \/ upload_video_format
    \/ upload_video_except
    \/ check_upload_quota_call
    \/ check_upload_quota_probe
    \/ check_upload_quota_except
    \/ cli_main_call
    \/ cli_parse_args
    \/ cli_check_file
    \/ cli_gas_load
    \/ cli_gas_decide
    \/ cli_gas_refresh
    \/ cli_gas_flow
    \/ cli_gas_save
    \/ cli_gas_build
    \/ cli_main_auth_except
    \/ cli_upload_insert
    \/ cli_upload_step
    \/ cli_upload_print
    \/ cli_main_upload_except
    \/ list_video_categories_call
    \/ list_video_categories_request
    \/ list_video_categories_except
    \/ setup_youtube_auth_call
    \/ setup_youtube_auth_write
    \/ setup_youtube_auth_except
    \/ authorize_youtube_access_call
    \/ authorize_check_credentials
    \/ authorize_probe
    \/ authorize_flow
    \/ authorize_save
    \/ authorize_verify
    \/ authorize_except

Spec == Init /\ [][Next]_vars

\* ------------------------------------------------------- upload metadata
\* The uploads called with a keyword string, followed up to the creation of
\* the insert request, whose body holds the tags.
InitTags ==
    /\ tokenFile \in TokenFiles
    /\ credFile \in CredFiles
    /\ op = "none"
    /\ pc = "idle"
    /\ fileExists = FALSE
    /\ tokenAtStart = tokenFile
    /\ creds = NoCreds
    /\ service = NoCreds
    /\ events = <<>>
    /\ history = <<>>
    /\ retry = 0
    /\ sleeps = <<>>
    /\ uploadResult = NoResult
    /\ exc = "none"
    /\ result = NoText
    /\ exitCode = -1
    /\ keywords \in KeywordStrings
    /\ tags = NoTags
    /\ acked = 0
    /\ response = NoResponse
    /\ race = NoRace
    /\ setupArgs = NoArgs

NextTags ==
    \/ upload_video_call
    \/ gas_load
    \/ gas_decide
    \/ gas_refresh
    \/ gas_flow
    \/ gas_save
    \/ gas_build
    \/ initialize_upload_check
    \/ initialize_upload_media
    \/ initialize_upload_insert
    \/ upload_video_except
    \/ cli_main_call
    \/ cli_parse_args
    \/ cli_check_file
    \/ cli_gas_load
    \/ cli_gas_decide
    \/ cli_gas_refresh
    \/ cli_gas_flow
    \/ cli_gas_save
    \/ cli_gas_build
    \/ cli_main_auth_except
    \/ cli_upload_insert

SpecTags == InitTags /\ [][NextTags]_vars

\* ------------------------------------------- concurrent authentication
\* Two processes (two servers, or a server and the CLI, started in one
\* directory) run get_authenticated_service on the same TOKEN_FILE; their
\* statements interleave, and nothing in the function locks the file.
Proc(p) == race.proc[p]

others == <<op, pc, fileExists, tokenAtStart, creds, service, events, history, retry,
            sleeps, uploadResult, exc, result, exitCode, keywords, tags, acked,
            response, setupArgs>>

\* The invocation p goes on with the locals f.
Locals(p, f) == [race EXCEPT !.proc[p] = f]

RaceRaise(p, e) == [Proc(p) EXCEPT !.pc = "raised", !.exc = e]

FileEvent(p, e) == [p |-> p, e |-> e]

race_call(p) ==
    /\ Proc(p).pc = "off"
    /\ race' = Locals(p, [Proc(p) EXCEPT !.pc = "load"])
    /\ UNCHANGED <<files, others>>

\* if os.path.exists(TOKEN_FILE): creds = Credentials.from_authorized_user_file(...)
race_load(p) ==
    /\ Proc(p).pc = "load"
    /\ \/ /\ tokenFile.st = "absent"
          /\ race' = Locals(p, [Proc(p) EXCEPT !.pc = "decide"])
       \/ /\ tokenFile.st = "json"
          /\ race' = Locals(p, [Proc(p) EXCEPT !.pc = "decide",
                                               !.loaded = from_authorized_user_file(tokenFile),
                                               !.creds = from_authorized_user_file(tokenFile)])
       \/ /\ tokenFile.st = "corrupt"
          /\ race' = Locals(p, RaceRaise(p, "TokenParseError"))
    /\ UNCHANGED <<files, others>>

race_decide(p) ==
    /\ Proc(p).pc = "decide"
    /\ race' = Locals(p,
         IF ~NeedsLogin(Proc(p).creds)
           THEN [Proc(p) EXCEPT !.pc = "build"]
           ELSE IF CanRefresh(Proc(p).creds)
             THEN [Proc(p) EXCEPT !.pc = "refresh"]
             ELSE IF CredentialsMissing(credFile)
               THEN RaceRaise(p, "MissingCredentials")
               ELSE [Proc(p) EXCEPT !.pc = "flow"])
    /\ UNCHANGED <<files, others>>

\* creds.refresh(Request())
race_refresh(p) ==
    /\ Proc(p).pc = "refresh"
    /\ \/ \E t \in TokenIds \ {Proc(p).creds.token} :
            race' = Locals(p, [Proc(p) EXCEPT !.pc = "open", !.did = "refresh",
                                              !.creds.token = t, !.creds.expired = FALSE])
       \/ race' = Locals(p, RaceRaise(p, "RefreshError"))
    /\ UNCHANGED <<files, others>>

\* InstalledAppFlow.from_client_secrets_file + flow.run_local_server(port=0)
race_flow(p) ==
    /\ Proc(p).pc = "flow"
    /\ \/ /\ credFile.st = "json"
          /\ \E t \in TokenIds, r \in BOOLEAN :
               race' = Locals(p, [Proc(p) EXCEPT !.pc = "open", !.did = "flow",
                        !.creds = [st |-> "creds", token |-> t, expired |-> FALSE, refresh |-> r]])
       \/ /\ credFile.st = "json"
          /\ race' = Locals(p, RaceRaise(p, "FlowError"))
       \/ /\ credFile.st # "json"
          /\ race' = Locals(p, RaceRaise(p, "ClientSecretsError"))
    /\ UNCHANGED <<files, others>>

\* open(TOKEN_FILE, 'w'): the file is truncated when it is opened, before
\* anything is written; or open fails and the file is untouched.
race_open(p) ==
    /\ Proc(p).pc = "open"
    /\ \/ /\ tokenFile' = CorruptFile
          /\ race' = [Locals(p, [Proc(p) EXCEPT !.pc = "write"])
                        EXCEPT !.log = Append(race.log, FileEvent(p, "truncate")),
                               !.dirty = FALSE]
       \/ /\ race' = Locals(p, RaceRaise(p, "WriteError"))
          /\ UNCHANGED tokenFile
    /\ UNCHANGED <<credFile, others>>

\* A write that is lost: the process goes on, the file keeps what it held.
race_write_lost(p) ==
    /\ Proc(p).pc = "write"
    /\ race' = [Locals(p, [Proc(p) EXCEPT !.pc = "build"])
                  EXCEPT !.log = Append(race.log, FileEvent(p, "write")),
                         !.dirty = TRUE]
    /\ UNCHANGED <<files, others>>

\* token.write(creds.to_json()) and the close of the with block: the text goes
\* to the file from offset 0. On a file that another process wrote to since
\* this one truncated it, a text at least as long as the one there replaces
\* it, and a shorter text leaves the tail of the other behind it, a content
\* that does not parse. Or the write fails.
race_write(p) ==
    /\ Proc(p).pc = "write"
    /\ \/ /\ tokenFile' = to_json(Proc(p).creds)
          /\ race' = [Locals(p, [Proc(p) EXCEPT !.pc = "build"])
                        EXCEPT !.log = Append(race.log, FileEvent(p, "write")),
                               !.dirty = TRUE]
       \/ /\ race.dirty
          /\ tokenFile' = CorruptFile
          /\ race' = [Locals(p, [Proc(p) EXCEPT !.pc = "build"])
                        EXCEPT !.log = Append(race.log, FileEvent(p, "mix"))]
       \/ /\ race' = Locals(p, RaceRaise(p, "WriteError"))
          /\ UNCHANGED tokenFile
    /\ UNCHANGED <<credFile, others>>

\* return build(API_SERVICE_NAME, API_VERSION, credentials=creds)
race_build(p) ==
    /\ Proc(p).pc = "build"
    /\ race' = Locals(p, [Proc(p) EXCEPT !.pc = "returned", !.service = Proc(p).creds])
    /\ UNCHANGED <<files, others>>

InitRace ==
    /\ tokenFile \in TokenFiles
    /\ credFile \in CredFiles
    /\ op = "none"
    /\ pc = "idle"
    /\ fileExists = FALSE
    /\ tokenAtStart = tokenFile
    /\ creds = NoCreds
    /\ service = NoCreds
    /\ events = <<>>
    /\ history = <<>>
    /\ retry = 0
    /\ sleeps = <<>>
    /\ uploadResult = NoResult
    /\ exc = "none"
    /\ result = NoText
    /\ exitCode = -1
    /\ keywords = <<>>
    /\ tags = NoTags
    /\ acked = 0
    /\ response = NoResponse
    /\ race = NoRace
    /\ setupArgs = NoArgs

NextRace ==
    \E p \in Procs :
        \/ race_call(p)
        \/ race_load(p)
        \/ race_decide(p)
        \/ race_refresh(p)
        \/ race_flow(p)
        \/ race_open(p)
        \/ race_write(p)
        \/ race_build(p)

SpecRace == InitRace /\ [][NextRace]_vars

TypeOK ==
    /\ tokenFile \in TokenFiles
    /\ credFile \in CredFiles
    /\ creds \in Credentials \cup {NoCreds}
    /\ service \in Credentials \cup {NoCreds}
    /\ retry \in 0..(RetryLimit + 1)
    /\ fileExists \in BOOLEAN
    /\ exitCode \in {-1, 0, 1, 2}
    /\ keywords \in KeywordStrings
    /\ response \in Responses \cup {NoResponse}
    /\ acked \in 0..(MaxProgress + 1)

\* ------------------------------------------------------ vocabulary of claims
Range(s) == {s[i] : i \in 1..Len(s)}

Min(a, b) == IF a < b THEN a ELSE b

\* A response that is a transient failure, by the statuses the text names.
TransientResp(r) == r.kind = "http" /\ r.status \in {500, 502, 503, 504}

\* A response that is any other failure.
FatalResp(r) == (r.kind = "http" /\ r.status \notin {500, 502, 503, 504}) \/ r.kind = "exc"

Transients(h) == Cardinality({i \in 1..Len(h) : TransientResp(h[i])})

\* Effects of authentication: a call to the token endpoint, the browser
\* flow with its local listener, a change of the token file.
AuthEvents == {"refresh", "flow", "write_token", "truncate_token"}

IsAuthEvent(e) == e \in AuthEvents

AuthLog == SelectSeq(events, IsAuthEvent)

InUpload == op = "upload_video" /\ pc \in {"loop", "format", "done"}

\* C1: in resumable_upload every transient failure (500, 502, 503, 504)
\* increments the retry count; up to a count of 3 the loop sleeps 5 x count
\* and calls next_chunk again, so 3 transient failures in a row and then a
\* terminal success give the sleeps 5, 10, 15 and success on the 4th attempt;
\* the 4th transient failure returns a failure carrying that HTTP error after
\* 4 attempts and 3 sleeps, with no sleep after the last failure.
C1_RetryBackoff ==
    InUpload =>
      LET n == Transients(history) IN
      /\ retry = n
      /\ n <= 4
      /\ sleeps = [i \in 1..Min(n, 3) |-> 5 * i]
      /\ (history # <<>> /\ TransientResp(Last(history)) /\ n <= 3) =>
             (pc = "loop" /\ ~uploadResult.set)
      /\ n = 4 =>
             /\ TransientResp(Last(history))
             /\ pc # "loop"
             /\ uploadResult = Failure(Error("HTTP error", Last(history).status))
      /\ (Len(history) = 4 /\ n = 3 /\ Last(history).kind = "final" /\ Last(history).id # 0) =>
             /\ sleeps = <<5, 10, 15>>
             /\ uploadResult = Success(Last(history).id)
      /\ (uploadResult.set /\ n = Len(history)) =>
             (Len(history) = 4 /\ Len(sleeps) = 3 /\ ~uploadResult.success)

C1_Witness ==
    /\ InUpload
    /\ Len(history) = 4
    /\ \A i \in 1..3 : history[i].kind = "http" /\ history[i].status = 503
    /\ history[4].kind = "final" /\ history[4].id = 1
    /\ sleeps = <<5, 10, 15>>
    /\ uploadResult = Success(1)

\* C2: in resumable_upload a non-transient failure (an HttpError with
\* another status, or any other exception) returns a failure result at once,
\* whatever the retry count: it is the last call of next_chunk and no sleep
\* follows it.
C2_FatalReturnsAtOnce ==
    InUpload =>
      \A i \in 1..Len(history) :
        FatalResp(history[i]) =>
          /\ i = Len(history)
          /\ pc # "loop"
          /\ uploadResult.set /\ ~uploadResult.success
          /\ uploadResult.error # NoError
          /\ Len(sleeps) = Transients(history)

C2_Witness ==
    /\ InUpload
    /\ Len(history) = 3
    /\ TransientResp(history[1])
    /\ history[2].kind = "progress"
    /\ history[3].kind = "http" /\ history[3].status = 403
    /\ retry = 1
    /\ sleeps = <<5>>
    /\ uploadResult = Failure(Error("HttpError", 403))

\* C3 (as claimed): the retry budget is per chunk; the first transient
\* failure after an acknowledged chunk is retried, with a backoff of 5.
C3_PerChunkBudget ==
    (op = "upload_video" /\ Len(history) >= 2
       /\ TransientResp(Last(history))
       /\ history[Len(history) - 1].kind = "progress") =>
          (pc = "loop" /\ sleeps # <<>> /\ Last(sleeps) = 5)

\* C4: when the file does not exist, initialize_upload raises
\* FileNotFoundError before the media object is made, before
\* videos().insert and before next_chunk; upload_video returns a failure text.
C4_MissingFileNoUpload ==
    (op = "upload_video" /\ ~fileExists) =>
      /\ "media" \notin Range(events)
      /\ "insert" \notin Range(events)
      /\ history = <<>>
      /\ ~uploadResult.set
      /\ pc \notin {"init_media", "init_insert", "loop", "format"}
      /\ pc = "done" => result.text = "Error uploading video"
      /\ (pc = "done" /\ service # NoCreds) =>
             result = Text("Error uploading video", <<"FileNotFoundError">>)

C4_Witness ==
    /\ op = "upload_video"
    /\ ~fileExists
    /\ pc = "done"
    /\ service # NoCreds
    /\ result = Text("Error uploading video", <<"FileNotFoundError">>)

\* C5 (as claimed): when the file does not exist, neither upload_video nor
\* the CLI refreshes the token, runs the interactive flow, writes the token
\* file or calls the API.
C5_FileCheckedBeforeNetwork ==
    (op \in {"upload_video", "cli_main"} /\ ~fileExists) =>
      /\ events = <<>>
      /\ history = <<>>
      /\ tokenFile = tokenAtStart

\* C6 (as claimed): check_upload_quota never writes the token file and never
\* starts the interactive flow; without a valid token it only reports.
C6_ProbeReadOnly ==
    op = "check_upload_quota" =>
      /\ "flow" \notin Range(events)
      /\ "write_token" \notin Range(events)
      /\ "truncate_token" \notin Range(events)
      /\ tokenFile = tokenAtStart

AllOps == ServerOps \cup {"cli_main"}

\* The token file held a valid (non-expired) access token when the call began.
ValidAtStart == tokenAtStart.st = "json" /\ tokenAtStart.token # 0 /\ ~tokenAtStart.expired

\* It held an expired credential with a refresh token.
RefreshableAtStart == tokenAtStart.st = "json" /\ tokenAtStart.expired /\ tokenAtStart.refresh

\* There was no token file, or its credential was not valid and could not
\* be refreshed.
NoUsableTokenAtStart ==
    \/ tokenAtStart.st = "absent"
    \/ /\ tokenAtStart.st = "json"
       /\ tokenAtStart.token = 0 \/ tokenAtStart.expired
       /\ ~(tokenAtStart.expired /\ tokenAtStart.refresh)

\* get_authenticated_service has returned a service.
Authenticated == service # NoCreds

\* The given exception left get_authenticated_service (pending or reported).
AuthFailedWith(e) == exc = e \/ (pc = "done" /\ result.detail = <<e>>)

\* C7: with a valid token in the token file, get_authenticated_service
\* returns a service on that token: no refresh, no interactive flow, no write
\* of the token file, and the credential file is not needed.
C7_ValidTokenUsedAsIs ==
    (op \in AllOps /\ ValidAtStart) =>
      /\ AuthLog = <<>>
      /\ tokenFile = tokenAtStart
      /\ pc \notin {"gas_refresh", "gas_flow", "gas_save",
                    "cli_gas_refresh", "cli_gas_flow", "cli_gas_save", "cli_auth_except"}
      /\ ~AuthFailedWith("MissingCredentials")
      /\ result.text # "Error: Missing credentials.json"
      /\ pc \in {"gas_build", "cli_gas_build"} =>
             (creds.token = tokenAtStart.token /\ creds.refresh = tokenAtStart.refresh)
      /\ Authenticated =>
             /\ service.token = tokenAtStart.token
             /\ service.refresh = tokenAtStart.refresh
             /\ ~service.expired

C7_Witness ==
    /\ op \in AllOps
    /\ ValidAtStart
    /\ credFile.st = "absent"
    /\ Authenticated
    /\ service.token = tokenAtStart.token
    /\ AuthLog = <<>>

\* C8: with an expired credential that has a refresh token,
\* get_authenticated_service refreshes silently and never runs the
\* interactive flow: after a successful refresh the refreshed credential is
\* written to the token file and returned; after a failed refresh the error
\* propagates and the token file is unchanged.
C8_SilentRefresh ==
    (op \in AllOps /\ RefreshableAtStart) =>
      /\ "flow" \notin Range(events)
      /\ pc \notin {"gas_flow", "cli_gas_flow"}
      /\ ~AuthFailedWith("MissingCredentials")
      /\ ~AuthFailedWith("FlowError")
      /\ result.text # "Error: Missing credentials.json"
      /\ Authenticated =>
             /\ AuthLog = <<"refresh", "write_token">>
             /\ tokenFile.st = "json"
             /\ tokenFile.token = service.token
             /\ tokenFile.refresh = service.refresh
             /\ tokenFile.expired = service.expired
             /\ service.token # 0 /\ ~service.expired
      /\ AuthFailedWith("RefreshError") =>
             /\ AuthLog = <<"refresh">>
             /\ tokenFile = tokenAtStart
             /\ ~Authenticated

C8_Witness ==
    /\ op \in AllOps
    /\ RefreshableAtStart
    /\ Authenticated
    /\ AuthLog = <<"refresh", "write_token">>
    /\ tokenFile # tokenAtStart
    /\ tokenFile.token = service.token

\* C9: without a usable token and without the credential file,
\* get_authenticated_service fails with the missing-credential error that
\* says how to get credentials; no listener, no network call, no write of the
\* token file.
C9_MissingCredentials ==
    (op \in AllOps /\ NoUsableTokenAtStart /\ credFile.st = "absent") =>
      /\ events = <<>>
      /\ history = <<>>
      /\ tokenFile = tokenAtStart
      /\ ~Authenticated
      /\ pc \notin {"gas_refresh", "gas_flow", "gas_save", "gas_build", "after_auth",
                    "cli_gas_refresh", "cli_gas_flow", "cli_gas_save", "cli_gas_build",
                    "cli_auth_except", "cli_upload"}
      /\ pc = "except" => exc = "MissingCredentials"
      /\ (pc = "done" /\ op \in ServerOps) => result.detail = <<"MissingCredentials">>
      /\ (pc = "done" /\ op = "cli_main" /\ fileExists
             /\ result.text \notin {"usage", "help"}) =>
             /\ result = Text("Error: Missing credentials.json",
                              <<"Please download OAuth2 credentials from Google Cloud Console">>)
             /\ exitCode = 1

C9_Witness ==
    /\ op \in ServerOps
    /\ NoUsableTokenAtStart
    /\ tokenAtStart.st = "json"
    /\ credFile.st = "absent"
    /\ pc = "done"
    /\ result.detail = <<"MissingCredentials">>

\* C10: one call of get_authenticated_service changes the token file at most
\* once, and only after a successful refresh or a successful interactive
\* acquisition; when it returns, the token file holds the credential the
\* returned service uses.
C10_TokenFileMatchesService ==
    op \in ServerOps =>
      /\ Cardinality({i \in 1..Len(events) :
                        events[i] \in {"write_token", "truncate_token"}}) <= 1
      /\ \A i \in 1..Len(events) :
            events[i] \in {"write_token", "truncate_token"} =>
               (i = 2 /\ events[1] \in {"refresh", "flow"})
      /\ tokenFile # tokenAtStart =>
            (\E i \in 1..Len(events) : events[i] \in {"write_token", "truncate_token"})
      /\ "write_token" \in Range(events) =>
            (tokenFile.st = "json" /\ tokenFile.token # 0 /\ ~tokenFile.expired)
      /\ Authenticated =>
            /\ tokenFile.st = "json"
            /\ tokenFile.token = service.token
            /\ tokenFile.expired = service.expired
            /\ tokenFile.refresh = service.refresh

C10_Witness ==
    /\ op \in ServerOps
    /\ Authenticated
    /\ Len(events) >= 2
    /\ events[1] = "flow"
    /\ events[2] = "write_token"
    /\ tokenAtStart.st = "absent"
    /\ tokenFile.token = service.token

\* The five tools of the server.
ToolOps == ServerOps \cup {"authorize_youtube_access", "setup_youtube_auth"}

\* The text with which each tool reports an exception.
ErrorTextOf(o) ==
    CASE o = "upload_video" -> {"Error uploading video"}
      [] o = "check_upload_quota" -> {"Error checking quota"}
      [] o = "list_video_categories" -> {"Error listing categories"}
      [] o = "setup_youtube_auth" -> {"Error setting up credentials"}
      [] o = "authorize_youtube_access" ->
           {"OAuth Configuration Error: redirect_uri_mismatch",
            "Authorization denied by user.", "Authorization failed"}

\* The exceptions the inner components raise.
Exceptions ==
    {"TokenParseError", "RefreshError", "MissingCredentials", "ClientSecretsError",
     "FlowError", "redirect_uri_mismatch", "access_denied", "WriteError",
     "FileNotFoundError", "HttpError", "KeyError"}

\* C11: each of the five tools returns a text for every outcome of the
\* inner components: an exception raised by authentication, by the upload,
\* by a remote call or by a file write is caught by the tool and reported in
\* its text; no exception reaches the caller.
C11_ToolsReturnText ==
    op \in ToolOps =>
      /\ exc # "none" => (pc = "except" /\ exc \in Exceptions)
      /\ pc = "done" =>
           /\ exc = "none"
           /\ result.text # "none"
      /\ (pc = "done" /\ ~uploadResult.set /\ result.detail # <<>>
             /\ result.detail[1] \in Exceptions) =>
           result.text \in ErrorTextOf(op)
      /\ (pc = "done" /\ op = "upload_video" /\ uploadResult.set) =>
           result.text = (IF uploadResult.success THEN "Video uploaded successfully!"
                                                 ELSE "Upload failed")

C11_Witness ==
    /\ op = "upload_video"
    /\ pc = "done"
    /\ result = Text("Error uploading video", <<"WriteError">>)
    /\ tokenFile = CorruptFile

\* The CLI ended after an upload that produced a video id, having printed
\* the id and the canonical URL.
CliUploaded ==
    /\ response # NoResponse
    /\ response.id # 0
    /\ result = Text("Upload successful!", <<"https://www.youtube.com/watch?v=", response.id>>)

\* The texts the CLI prints on its failure paths that end with status 1.
CliFailureTexts ==
    {"Error: File not found", "Error: Missing credentials.json", "Authentication error",
     "HTTP error", "Upload error"}

\* C12 as stated: the command-line uploader ends with exit code 1 on every
\* failure path, argument validation included, with exit code 0 only after an
\* upload that produced a video id, and with no other exit code.
C12_ExitOneOnEveryFailure ==
    (op = "cli_main" /\ pc = "done") =>
      /\ exitCode \in {0, 1}
      /\ exitCode = 0 <=> CliUploaded
      /\ result.text = "usage" => exitCode = 1

\* C12, amended: the command-line uploader ends with exit code 2 when the
\* argument parser rejects the arguments, with exit code 0 after printing the
\* help or after an upload that produced a video id (having printed that id
\* and the canonical URL), and with exit code 1 on every other failure path:
\* missing file, missing credential file, authentication error, HTTP error
\* during the upload, any other upload error; no other exit code is produced.
C12_ExitCodes ==
    op = "cli_main" =>
      /\ pc # "done" => exitCode = -1
      /\ pc = "done" =>
           /\ exitCode \in {0, 1, 2}
           /\ exitCode = 2 <=> result.text = "usage"
           /\ exitCode = 0 <=> (result.text = "help" \/ CliUploaded)
           /\ exitCode = 1 <=> result.text \in CliFailureTexts
           /\ (result.text \notin {"usage", "help"} /\ ~fileExists) =>
                result.text = "Error: File not found"
           /\ (history # <<>> /\ Last(history).kind = "http") => result.text = "HTTP error"
           /\ (history # <<>> /\ Last(history).kind = "exc") => result.text = "Upload error"
           /\ (response # NoResponse /\ response.id = 0) => result.text = "Upload error"
           /\ (Len(events) > 0 /\ Last(events) \in {"flow", "refresh"}) =>
                result.text = "Authentication error"

C12_Witness ==
    /\ op = "cli_main"
    /\ pc = "done"
    /\ result.text = "usage"
    /\ exitCode = 2

\* What loading the credential file gives after setup_youtube_auth was
\* called with the arguments a.
LoadedAfterSetup(a) ==
    [installed |->
       [client_id |-> a.client_id,
        client_secret |-> a.client_secret,
        project_id |-> a.project_id,
        auth_uri |-> "https://accounts.google.com/o/oauth2/auth",
        token_uri |-> "https://oauth2.googleapis.com/token",
        auth_provider_x509_cert_url |-> "https://www.googleapis.com/oauth2/v1/certs",
        redirect_uris |-> <<"http://localhost">>]]

\* A step of a running setup_youtube_auth.
SetupStep ==
    /\ op = "setup_youtube_auth"
    /\ op' = "setup_youtube_auth"
    /\ pc \in {"setup_write", "except"}

\* C13: setup_youtube_auth(client_id, client_secret, project_id) followed by
\* loading the credential file yields a record under the key installed with
\* exactly those three values and the fixed endpoints; it overwrites any
\* earlier credential file, a call with the arguments the file already holds
\* leaves the same file, it makes no network call, never touches the token
\* file, and it fails only when the file write fails.
C13_SetupRoundTrip ==
    [][SetupStep =>
         /\ tokenFile' = tokenFile
         /\ \A i \in (Len(events) + 1)..Len(events') :
              events'[i] \in {"write_credentials", "truncate_credentials"}
         /\ setupArgs' = setupArgs
         /\ (pc' = "done" /\ result'.text = "Credentials saved") =>
              /\ credFile'.st = "json"
              /\ json_load(credFile') = LoadedAfterSetup(setupArgs)
              /\ (credFile.st = "json" /\ json_load(credFile) = LoadedAfterSetup(setupArgs)) =>
                   credFile' = credFile
         /\ (pc' = "done" /\ result'.text # "Credentials saved") =>
              result' = Text("Error setting up credentials", <<"WriteError">>)
         /\ pc' = "except" => exc' = "WriteError"
         /\ pc' \in {"done", "except"}]_vars

C13_Witness ==
    /\ op = "setup_youtube_auth"
    /\ pc = "done"
    /\ result.text = "Credentials saved"
    /\ events = <<"write_credentials">>
    /\ credFile.st = "json"
    /\ credFile.installed.client_id = "client-2"
    /\ tokenFile # AbsentFile

\* C14: every result of resumable_upload is well formed: success is true if
\* and only if a terminal response containing an id was received, in which
\* case video_id is that id and url is exactly
\* https://www.youtube.com/watch?v= followed by the id, with no error field;
\* a terminal response without an id gives success false with an error
\* description; every failure result carries an error and no video_id or url.
C14_ResultWellFormed ==
    (op = "upload_video" /\ uploadResult.set /\ history # <<>>) =>
      LET l == Last(history) IN
        /\ uploadResult.success <=> (l.kind = "final" /\ l.id # 0)
        /\ uploadResult.success =>
             /\ uploadResult.video_id = l.id
             /\ uploadResult.url = <<"https://www.youtube.com/watch?v=", l.id>>
             /\ uploadResult.error = <<>>
        /\ (l.kind = "final" /\ l.id = 0) =>
             /\ ~uploadResult.success
             /\ uploadResult.error = <<"Upload failed with unexpected response", 0>>
        /\ ~uploadResult.success =>
             /\ uploadResult.error # <<>>
             /\ uploadResult.video_id = 0
             /\ uploadResult.url = <<>>

C14_Witness ==
    /\ op = "upload_video"
    /\ pc = "format"
    /\ uploadResult.success
    /\ uploadResult.video_id = MaxVideoId
    /\ Count(history, "progress") > 0
    /\ Transients(history) > 0

\* The keyword string has a comma.
HasComma(k) == \E i \in 1..Len(k) : k[i] = ","

NonEmpty(piece) == piece # <<>>

\* The non-empty comma-separated segments of a keyword string, in order.
NonEmptySegments(k) == SelectSeq(split(k), NonEmpty)

\* C15: for every keyword string containing at least one comma, the tag
\* sequence put in the upload metadata has length equal to the number of
\* non-empty comma-separated segments of the string and keeps their order
\* (empty segments, from leading, trailing or doubled commas, produce no tag).
C15_TagsAreNonEmptySegments ==
    (pc \in {"loop", "cli_loop"} /\ HasComma(keywords)) =>
      /\ tags.st = "list"
      /\ Len(tags.items) = Len(NonEmptySegments(keywords))
      /\ tags.items = NonEmptySegments(keywords)

\* C16: the command-line uploader is an adapter over the same upload
\* controller as the tool: for every sequence of service responses to
\* next_chunk the CLI upload reaches the terminal outcome of the tool upload
\* (success with the same video id, or failure); in particular a transient
\* failure (500, 502, 503, 504) in the CLI upload is retried up to 3 times
\* with linear backoff before it is surfaced as fatal.
C16_CliRetriesLikeTool ==
    (op = "cli_main" /\ history # <<>>) =>
      LET l == Last(history) IN
        /\ (TransientResp(l) /\ Transients(history) <= 3) =>
             /\ pc = "cli_loop"
             /\ exitCode = -1
             /\ sleeps = [i \in 1..Transients(history) |-> 5 * i]
        /\ pc = "done" =>
             /\ exitCode = 0 <=> (l.kind = "final" /\ l.id # 0)
             /\ exitCode = 0 => result.detail = <<"https://www.youtube.com/watch?v=", l.id>>
             /\ l.kind = "http" => (~TransientResp(l) \/ Transients(history) > 3)

\* How many times the event e happened in this invocation.
Times(e) == Cardinality({i \in 1..Len(events) : events[i] = e})

\* C17: within one upload the session is opened exactly once: every retry
\* after a transient failure calls next_chunk on the same insert request and
\* never re-creates the request or the media object, so the bytes
\* acknowledged by the session never decrease across retries and an already
\* acknowledged chunk is never sent again from offset zero.
C17_SessionOpenedOnce ==
    [][(op = "upload_video" /\ pc = "loop") =>
         /\ op' = "upload_video"
         /\ Len(history') = Len(history) + 1
         /\ events' = events
         /\ Times("media") = 1
         /\ Times("insert") = 1
         /\ acked' >= acked
         /\ TransientResp(Last(history')) => acked' = acked
         /\ Last(history').kind \in {"progress", "final"} => acked' = acked + 1
         /\ acked' = Count(history', "progress") + Count(history', "final")]_vars

C17_Witness ==
    /\ op = "upload_video"
    /\ pc = "loop"
    /\ acked = MaxProgress
    /\ TransientResp(Last(history))
    /\ Transients(history) = 2
    /\ Times("insert") = 1

\* C18: resumable_upload terminates for every service behaviour in which the
\* number of partial-progress responses is finite: it returns a result after
\* at most (number of partial-progress responses + 4) calls to next_chunk,
\* and it never loops forever on transient failures alone: while the loop
\* goes on, every call but at most 3 was a partial-progress response.
C18_BoundedCalls ==
    op = "upload_video" =>
      /\ Len(history) <= Count(history, "progress") + 4
      /\ Transients(history) <= 4
      /\ pc = "loop" =>
           /\ Len(history) = Count(history, "progress") + Transients(history)
           /\ Transients(history) <= 3
      /\ (history # <<>> /\ pc # "loop") => uploadResult.set
      /\ (history # <<>> /\ Last(history).kind # "progress"
            /\ ~(TransientResp(Last(history)) /\ Transients(history) <= 3)) => pc # "loop"

C18_Witness ==
    /\ op = "upload_video"
    /\ pc = "format"
    /\ uploadResult.set
    /\ Count(history, "progress") = MaxProgress
    /\ Len(history) = MaxProgress + 4

\* C20: the defensive result with error text Upload failed at the end of
\* resumable_upload is never returned, under any service behaviour: every
\* iteration that obtains a non-null response returns from inside the loop,
\* and every exception path either returns or leaves the response null, so
\* the loop condition never becomes false.
C20_DefensiveResultUnreachable ==
    op = "upload_video" =>
      /\ uploadResult.error # <<"Upload failed", 0>>
      /\ pc = "loop" => response = NoResponse
      /\ response # NoResponse =>
           /\ uploadResult.set
           /\ Last(history) = response
      /\ (history # <<>> /\ Last(history).kind \in {"http", "exc"}) => response = NoResponse

C20_Witness ==
    /\ op = "upload_video"
    /\ pc = "format"
    /\ response # NoResponse
    /\ response.id = 0
    /\ uploadResult.error = <<"Upload failed with unexpected response", 0>>
    /\ Transients(history) > 0

\* Both invocations read the same expired token with a refresh token, both
\* refreshed it, both wrote the token file and returned a service.
BothRefreshedAndWrote ==
    /\ \A p \in Procs :
         /\ Proc(p).pc = "returned"
         /\ Proc(p).did = "refresh"
         /\ Proc(p).loaded.expired
         /\ Proc(p).loaded.refresh
         /\ \E i \in 1..Len(race.log) : race.log[i].p = p /\ race.log[i].e \in {"write", "mix"}
    /\ \A p, q \in Procs : Proc(p).loaded = Proc(q).loaded

\* The invocation p truncated the file, another one then wrote to it, and p
\* wrote after that: the two writes overlap.
Overlapped(p, n) ==
    \E i, j \in 1..(n - 1) :
        /\ i < j
        /\ race.log[i] = FileEvent(p, "truncate")
        /\ race.log[j].p # p
        /\ race.log[j].e \in {"write", "mix"}

\* C19 as stated: two concurrent invocations of get_authenticated_service
\* that read the same expired token with a refresh token can both refresh
\* and both write the token file, and the file ends holding the token of
\* whichever wrote last.
C19_FileHoldsLastWritersToken ==
    BothRefreshedAndWrote =>
      tokenFile = [st |-> "json",
                   token |-> Proc(Last(race.log).p).creds.token,
                   expired |-> FALSE,
                   refresh |-> TRUE]

\* C19, amended: two concurrent invocations of get_authenticated_service that
\* share one token file can both refresh and both write it (no lock orders
\* them). After a write that did not overlap another one the file holds the
\* token of whichever wrote last; when the last writer truncated the file
\* before the other one wrote, the file holds the last writer's token or,
\* its text being the shorter one, a content that does not parse; between a
\* truncation and the write that follows it the file does not parse either.
\* An invocation may then be using a credential that is not the one on disk.
C19_LastWriterOrMix ==
    race.log # <<>> =>
      LET l == Last(race.log) IN
        /\ l.e = "write" =>
             tokenFile = [st |-> "json",
                          token |-> Proc(l.p).creds.token,
                          expired |-> Proc(l.p).creds.expired,
                          refresh |-> Proc(l.p).creds.refresh]
        /\ l.e \in {"truncate", "mix"} => tokenFile.st = "corrupt"
        /\ l.e = "mix" => Overlapped(l.p, Len(race.log))
        /\ \A p \in Procs :
             Proc(p).pc = "returned" =>
               /\ Proc(p).service = Proc(p).creds
               /\ valid(Proc(p).service)

C19_Witness ==
    /\ BothRefreshedAndWrote
    /\ Last(race.log).e = "write"
    /\ tokenFile.st = "json"
    /\ \E p \in Procs : Proc(p).service.token # tokenFile.token

\* The event e happened before position i of this invocation.
Before(e, i) == \E j \in 1..(i - 1) : events[j] = e

\* The token file held a valid credential when the tool was called.
ValidTokenAtCall ==
    /\ tokenAtStart.st = "json"
    /\ tokenAtStart.token # 0
    /\ ~tokenAtStart.expired

\* C21: in authorize_youtube_access the interactive flow (local listener on
\* localhost:8080) is started only when the credential file exists and the
\* already-authenticated check did not succeed (no token file, token not
\* valid, probe call raised, or probe returned no channel), and the token
\* file is written only after the flow has returned credentials; when the
\* credential file is absent, or the tool answers that the caller is already
\* authenticated, no listener was opened and the token file is unchanged.
C21_FlowOnlyWhenNeeded ==
    op = "authorize_youtube_access" =>
      /\ \A i \in 1..Len(events) :
           /\ events[i] = "flow" =>
                /\ credFile.st # "absent"
                /\ result.text # "Already authenticated!"
                /\ ~ValidTokenAtCall \/ Before("api", i)
                /\ ~Before("flow", i)
           /\ events[i] \in {"write_token", "truncate_token"} =>
                /\ Before("flow", i)
                /\ creds.st = "creds"
                /\ creds.token # 0
                /\ ~creds.expired
      /\ tokenFile # tokenAtStart =>
           \E i \in 1..Len(events) : events[i] \in {"write_token", "truncate_token"}
      /\ pc \in {"az_flow", "az_save", "az_verify"} => credFile.st # "absent"
      /\ (credFile.st = "absent"
            \/ result.text \in {"OAuth2 client credentials not found.",
                                "Already authenticated!"}) =>
           /\ \A i \in 1..Len(events) : events[i] # "flow"
           /\ tokenFile = tokenAtStart
      /\ result.text = "Already authenticated!" =>
           /\ ValidTokenAtCall
           /\ events = <<"api">>
      /\ (pc = "done" /\ credFile.st = "absent") =>
           /\ result.text = "OAuth2 client credentials not found."
           /\ events = <<>>

C21_Witness ==
    /\ op = "authorize_youtube_access"
    /\ pc = "done"
    /\ ValidTokenAtCall
    /\ events = <<"api", "flow", "write_token", "api">>
    /\ result.text = "Authorization successful!"
    /\ tokenFile # tokenAtStart

\* The failure messages of authorize_youtube_access.
AuthorizeFailureTexts ==
    {"OAuth Configuration Error: redirect_uri_mismatch", "Authorization denied by user.",
     "Authorization failed"}

\* C22: whenever authorize_youtube_access returns one of its failure
\* messages (redirect mismatch, authorization denied, or the generic
\* authorization failed text), the token file is the same as before the
\* call: a token is persisted only on invocations that report the
\* authorization as successful or completed.
C22_FailureLeavesTokenFile ==
    (op = "authorize_youtube_access" /\ pc = "done") =>
      /\ result.text \in AuthorizeFailureTexts => tokenFile = tokenAtStart
      /\ tokenFile # tokenAtStart =>
           result.text \in {"Authorization successful!",
                            "Authorization completed but no YouTube channel found."}

\* The token of the flow is on disk and the tool reports a failure.
C22_PersistedThenFailed ==
    /\ op = "authorize_youtube_access"
    /\ pc = "done"
    /\ result = Text("Authorization failed", <<"HttpError">>)
    /\ events = <<"flow", "write_token", "api">>
    /\ tokenAtStart = AbsentFile
    /\ tokenFile = to_json(creds)

====
